---- MODULE Spec2Model ----
(***************************************************************************)
(* Model of the two-player tank game of src/tank_battle.py: the two Tanks, *)
(* the list of Bullets, the list of Obstacles and the Game loop            *)
(*     while not game_over: getch; handle_input; update; draw; sleep.      *)
(*                                                                         *)
(* Time.  The code reads time.time() and only ever uses the differences    *)
(* now - last_shot_time and now - last_move_time, which it compares with   *)
(* shot_cooldown and speed.  The model keeps these differences             *)
(* (since_shot, since_move) in units of 0.05 s, saturated one unit above   *)
(* the threshold they are compared with.  All reads of the clock inside    *)
(* one loop iteration return the same value; the clock advances during     *)
(* draw and sleep by an amount the environment chooses.                    *)
(***************************************************************************)
EXTENDS Integers, Sequences, FiniteSets, TLC

(***************************************************************************)
(* Bounds of the model.                                                    *)
(***************************************************************************)
\* screen.getmaxyx(): the smallest screen on which init_game succeeds,
\* random.randint(10, max_x - 10) and random.randint(3, max_y - 3) raise on
\* anything smaller.
max_x == 20
max_y == 6
\* loop iterations explored from construction with arbitrary keys
MaxTicks == 3
\* loop iterations explored with move keys only: the tanks start ten cells apart
MaxWalk == 10
\* calls made on one tracker
MaxCalls == 5

(***************************************************************************)
(* Program constants, times in units of 0.05 s.                            *)
(***************************************************************************)
shot_cooldown == 10
speed == 2
tick_sleep == 1
initial_health == 3
num_obstacles == 20

None == "None"
NoKey == "-1"

\* the keys getch can deliver: the eleven bound keys, no key (-1), and a key
\* that is bound to nothing
Keys == {"w", "s", "a", "d", " ", "KEY_UP", "KEY_DOWN", "KEY_LEFT", "KEY_RIGHT",
         "\n", "q", NoKey, "x"}

\* the time one loop iteration takes, sampled at the thresholds of the code:
\* the sleep alone, the bullet interval and one unit more, the fire cooldown
\* and one unit more
TickDurations == {tick_sleep, speed, shot_cooldown, shot_cooldown + 1}

\* the age of a bullet is followed for the time of three bullet intervals
MaxAge == 3 * speed + 1

Min(a, b) == IF a < b THEN a ELSE b

(***************************************************************************)
(* Direction                                                               *)
(***************************************************************************)
Direction == [UP |-> <<0, -1>>, DOWN |-> <<0, 1>>, LEFT |-> <<-1, 0>>, RIGHT |-> <<1, 0>>]

(***************************************************************************)
(* Tank                                                                    *)
(***************************************************************************)
Tank(x, y, symbol) ==
    [x |-> x, y |-> y, symbol |-> symbol, alive |-> TRUE, direction |-> "UP",
     health |-> initial_health, since_shot |-> shot_cooldown + 1]

InBounds(nx, ny) == 0 < nx /\ nx < max_x - 1 /\ 0 < ny /\ ny < max_y - 1

\* faulty variant of MoveTo: a move to the right shows the marker of a move to the left
MoveTo_wrong_glyph(t, new_x, new_y, dx, dy) ==
    LET moved == [t EXCEPT !.x = new_x, !.y = new_y]
    IN  IF dx > 0 THEN [moved EXCEPT !.direction = "RIGHT", !.symbol = "<"]
        ELSE IF dx < 0 THEN [moved EXCEPT !.direction = "LEFT", !.symbol = "<"]
        ELSE IF dy > 0 THEN [moved EXCEPT !.direction = "DOWN", !.symbol = "v"]
        ELSE IF dy < 0 THEN [moved EXCEPT !.direction = "UP", !.symbol = "^"]
        ELSE moved

\* the accepted branch of move (lines 49-64)
MoveTo(t, new_x, new_y, dx, dy) ==
    LET moved == [t EXCEPT !.x = new_x, !.y = new_y]
    IN  IF dx > 0 THEN [moved EXCEPT !.direction = "RIGHT", !.symbol = ">"]
        ELSE IF dx < 0 THEN [moved EXCEPT !.direction = "LEFT", !.symbol = "<"]
        ELSE IF dy > 0 THEN [moved EXCEPT !.direction = "DOWN", !.symbol = "v"]
        ELSE IF dy < 0 THEN [moved EXCEPT !.direction = "UP", !.symbol = "^"]
        ELSE moved

\* faulty variant of move: the border cells are accepted
move_onto_border(t, dx, dy) ==
    IF 0 <= t.x + dx /\ t.x + dx <= max_x - 1 /\ 0 <= t.y + dy /\ t.y + dy <= max_y - 1
    THEN MoveTo(t, t.x + dx, t.y + dy, dx, dy)
    ELSE t

\* faulty variant of move: a rejected move still turns the tank
move_turning(t, dx, dy) ==
    IF InBounds(t.x + dx, t.y + dy)
    THEN MoveTo(t, t.x + dx, t.y + dy, dx, dy)
    ELSE MoveTo(t, t.x, t.y, dx, dy)

move(t, dx, dy) ==
    LET new_x == t.x + dx
        new_y == t.y + dy
    IN  IF InBounds(new_x, new_y) THEN MoveTo(t, new_x, new_y, dx, dy) ELSE t

\* faulty variant of can_shoot: a shot is allowed when exactly the cooldown has passed
can_shoot_at_cooldown(t) == t.since_shot >= shot_cooldown

can_shoot(t) == t.since_shot > shot_cooldown

\* besides the fields of the code a bullet carries its history: the cell it was
\* created on, the clock units since its creation (saturated at MaxAge) and
\* the player whose fire key created it (1 or 2, noted when the key is handled)
Bullet(x, y, direction) ==
    [x |-> x, y |-> y, direction |-> direction, alive |-> TRUE, since_move |-> 0,
     x0 |-> x, y0 |-> y, age |-> 0, owner |-> 0]

\* faulty variant of shoot: a refused shot restarts the cooldown
shoot_restarting(t) ==
    IF can_shoot(t)
    THEN [tank |-> [t EXCEPT !.since_shot = 0],
          made |-> <<Bullet(t.x + Direction[t.direction][1],
                            t.y + Direction[t.direction][2], t.direction)>>]
    ELSE [tank |-> [t EXCEPT !.since_shot = 0], made |-> <<>>]

\* faulty variant of shoot: the bullet is created on the cell of the tank
shoot_from_own_cell(t) ==
    IF can_shoot(t)
    THEN [tank |-> [t EXCEPT !.since_shot = 0], made |-> <<Bullet(t.x, t.y, t.direction)>>]
    ELSE [tank |-> t, made |-> <<>>]

\* shoot returns the tank (its last_shot_time set when the shot is allowed)
\* and the sequence of the bullets created: one or none
shoot(t) ==
    IF can_shoot(t)
    THEN [tank |-> [t EXCEPT !.since_shot = 0],
          made |-> <<Bullet(t.x + Direction[t.direction][1],
                            t.y + Direction[t.direction][2], t.direction)>>]
    ELSE [tank |-> t, made |-> <<>>]

\* faulty variant of hit: the tank dies only below health 0
hit_below_zero(t) ==
    LET h == t.health - 1
    IN  [t EXCEPT !.health = h, !.alive = IF h < 0 THEN FALSE ELSE @]

hit(t) ==
    LET h == t.health - 1
    IN  [t EXCEPT !.health = h, !.alive = IF h <= 0 THEN FALSE ELSE @]

(***************************************************************************)
(* Bullet                                                                  *)
(***************************************************************************)
OutOfBounds(x, y) == x <= 0 \/ x >= max_x - 1 \/ y <= 0 \/ y >= max_y - 1

\* faulty variant of bullet_update: a bullet advances when exactly the interval has passed
bullet_update_at_interval(b) ==
    IF b.since_move >= speed
    THEN LET nx == b.x + Direction[b.direction][1]
             ny == b.y + Direction[b.direction][2]
         IN  [b EXCEPT !.x = nx, !.y = ny, !.since_move = 0,
                       !.alive = IF OutOfBounds(nx, ny) THEN FALSE ELSE @]
    ELSE b

\* faulty variant of bullet_update: a bullet dies beyond the border only, not on it
bullet_update_on_border(b) ==
    IF b.since_move > speed
    THEN LET nx == b.x + Direction[b.direction][1]
             ny == b.y + Direction[b.direction][2]
         IN  [b EXCEPT !.x = nx, !.y = ny, !.since_move = 0,
                       !.alive = IF nx < 0 \/ nx > max_x - 1 \/ ny < 0 \/ ny > max_y - 1
                                 THEN FALSE ELSE @]
    ELSE b

bullet_update(b) ==
    IF b.since_move > speed
    THEN LET nx == b.x + Direction[b.direction][1]
             ny == b.y + Direction[b.direction][2]
         IN  [b EXCEPT !.x = nx, !.y = ny, !.since_move = 0,
                       !.alive = IF OutOfBounds(nx, ny) THEN FALSE ELSE @]
    ELSE b

(***************************************************************************)
(* Obstacle                                                                *)
(***************************************************************************)
Obstacle(x, y) == [x |-> x, y |-> y, alive |-> TRUE, destructible |-> TRUE]

(***************************************************************************)
(* The weight tracker of src/weight_loss_system.py.  Weights are whole kg; *)
(* an Optional value is a sequence, empty for None and <<v>> for v.        *)
(***************************************************************************)
Nothing == <<>>
Some(v) == <<v>>
Get(o) == o[1]

\* int(): n / d truncated toward zero
Trunc(n, d) == IF n >= 0 THEN n \div d ELSE -((-n) \div d)

Gender == {"male", "female"}

ActivityLevel ==
    {"sedentary", "lightly_active", "moderately_active", "very_active", "extra_active"}

\* the dataclass User, without the created_at timestamp
User(name, age, gender, height_cm, current_weight_kg, target_weight_kg, activity_level) ==
    [name |-> name, age |-> age, gender |-> gender, height_cm |-> height_cm,
     current_weight_kg |-> current_weight_kg, target_weight_kg |-> target_weight_kg,
     activity_level |-> activity_level]

\* in quarters of a kcal
calculate_bmr(u) ==
    IF u.gender = "male"
    THEN 40 * u.current_weight_kg + 25 * u.height_cm - 20 * u.age + 20
    ELSE 40 * u.current_weight_kg + 25 * u.height_cm - 20 * u.age - 644

\* in thousandths
activity_multipliers ==
    [sedentary |-> 1200, lightly_active |-> 1375, moderately_active |-> 1550,
     very_active |-> 1725, extra_active |-> 1900]

\* in 1/4000 kcal
calculate_tdee(u) == calculate_bmr(u) * activity_multipliers[u.activity_level]

\* in tenths
met_values ==
    [walking_slow |-> 25, walking_moderate |-> 35, walking_fast |-> 45,
     running_slow |-> 70, running_moderate |-> 100, running_fast |-> 120,
     cycling_slow |-> 40, cycling_moderate |-> 80, cycling_fast |-> 120,
     swimming |-> 80, yoga |-> 25, weight_training |-> 60, aerobics |-> 70,
     dancing |-> 45, basketball |-> 80, soccer |-> 100, tennis |-> 75]

estimate_calories(activity_type, weight_kg, duration_minutes) ==
    LET met == IF activity_type \in DOMAIN met_values
               THEN met_values[activity_type] ELSE 40
    IN  Trunc(met * weight_kg * duration_minutes, 600)

Exercise(name, duration_minutes, calories_burned, date, intensity) ==
    [name |-> name, duration_minutes |-> duration_minutes,
     calories_burned |-> calories_burned, date |-> date, intensity |-> intensity,
     notes |-> ""]

Food(name, calories, protein_g, carbs_g, fat_g) ==
    [name |-> name, calories |-> calories, protein_g |-> protein_g,
     carbs_g |-> carbs_g, fat_g |-> fat_g, fiber_g |-> 0,
     serving_size |-> "1 serving"]

Meal(meal_type, foods, date, time) ==
    [meal_type |-> meal_type, foods |-> foods, date |-> date, time |-> time,
     notes |-> ""]

DailyRecord(date) ==
    [date |-> date, exercises |-> <<>>, meals |-> <<>>, weight_kg |-> Nothing,
     notes |-> ""]

generate_exercise_recommendations(u) ==
    (IF u.activity_level \in {"sedentary", "lightly_active"}
     THEN <<[type |-> "walking_moderate", duration_minutes |-> 30],
            [type |-> "weight_training", duration_minutes |-> 30]>>
     ELSE IF u.activity_level = "moderately_active"
     THEN <<[type |-> "running_slow", duration_minutes |-> 30],
            [type |-> "weight_training", duration_minutes |-> 45]>>
     ELSE <<[type |-> "running_moderate", duration_minutes |-> 45],
            [type |-> "weight_training", duration_minutes |-> 60]>>)
    \o <<[type |-> "yoga", duration_minutes |-> 30]>>

\* the meals and their calories; the gram amounts, which follow from
\* daily_calories alone, are left out
generate_meal_suggestions(daily_calories) ==
    <<[meal |-> "breakfast", calories |-> Trunc(daily_calories * 25, 100)],
      [meal |-> "lunch", calories |-> Trunc(daily_calories * 35, 100)],
      [meal |-> "dinner", calories |-> Trunc(daily_calories * 30, 100)],
      [meal |-> "snacks", calories |-> Trunc(daily_calories * 10, 100)]>>

\* WeightLossPlan.generate_plan; weekly_weight_loss_kg is in hundredths of a
\* kg, target_date is kept as the number of weeks from now, and the plan's
\* user is the tracker's own User object
WeightLossPlan(u, weeks, aggressive) ==
    LET weekly_loss == IF aggressive THEN 100 ELSE 75
        weight_to_lose == u.current_weight_kg - u.target_weight_kg
        target_weeks == IF 100 * weight_to_lose > weekly_loss * weeks
                        THEN Trunc(100 * weight_to_lose, weekly_loss) + 1
                        ELSE weeks
        daily_deficit == weekly_loss * 11
        computed == Trunc(calculate_tdee(u) - 4000 * daily_deficit, 4000)
        min_calories == IF u.gender = "male" THEN 1500 ELSE 1200
        daily_calories == IF computed > min_calories THEN computed ELSE min_calories
    IN  [target_date |-> target_weeks, daily_calorie_target |-> daily_calories,
         weekly_weight_loss_kg |-> weekly_loss,
         recommended_exercises |-> generate_exercise_recommendations(u),
         meal_suggestions |-> generate_meal_suggestions(daily_calories)]

\* a tracker is [user, daily_records, current_plan, data_file, raised]:
\* data_file is the content of the file, raised the exception the last call
\* ended in
save_data(t) ==
    [t EXCEPT !.data_file =
        Some([user |-> t.user,
              daily_records |-> IF t.daily_records = <<>> THEN Nothing
                                ELSE Some(t.daily_records)])]

\* __init__ and load_data when the data file does not exist
WeightLossTracker ==
    [user |-> Nothing, daily_records |-> <<>>, current_plan |-> Nothing,
     data_file |-> Nothing, raised |-> None]

\* the index of the first record of the date, 0 if there is none
record_index(records, date) ==
    IF \E i \in 1 .. Len(records) : records[i].date = date
    THEN CHOOSE i \in 1 .. Len(records) :
            /\ records[i].date = date
            /\ \A j \in 1 .. (i - 1) : records[j].date /= date
    ELSE 0

\* faulty variant of get_or_create_daily_record: a record is always created
get_or_create_daily_record_always(records, date) == Append(records, DailyRecord(date))

\* _get_or_create_daily_record: the list after the call; the record returned
\* is the first of the date
get_or_create_daily_record(records, date) ==
    IF record_index(records, date) /= 0 THEN records
    ELSE Append(records, DailyRecord(date))

\* p holds the arguments; Gender(...) and ActivityLevel(...) raise on a value
\* that is not a member
create_user(t, p) ==
    IF p.gender \notin Gender \/ p.activity_level \notin ActivityLevel
    THEN [t EXCEPT !.raised = "ValueError"]
    ELSE save_data([t EXCEPT !.raised = None,
                             !.user = Some(User(p.name, p.age, p.gender, p.height_cm,
                                                p.current_weight_kg, p.target_weight_kg,
                                                p.activity_level))])

generate_plan(t, weeks, aggressive) ==
    IF t.user = Nothing THEN [t EXCEPT !.raised = "ValueError"]
    ELSE [t EXCEPT !.raised = None,
                   !.current_plan = Some(WeightLossPlan(Get(t.user), weeks, aggressive))]

\* activity_type is "" when not given
add_exercise(t, date, name, duration_minutes, activity_type, intensity) ==
    IF t.user = Nothing THEN [t EXCEPT !.raised = "ValueError"]
    ELSE LET calories == IF activity_type /= ""
                         THEN estimate_calories(activity_type,
                                                Get(t.user).current_weight_kg,
                                                duration_minutes)
                         ELSE 0
             exercise == Exercise(name, duration_minutes, calories, date, intensity)
             records == get_or_create_daily_record(t.daily_records, date)
             i == record_index(records, date)
         IN  save_data([t EXCEPT !.raised = None,
                                 !.daily_records =
                                     [records EXCEPT ![i].exercises = Append(@, exercise)]])

\* time is given, so the clock is not read
add_meal(t, date, meal_type, foods, time) ==
    LET meal == Meal(meal_type, foods, date, time)
        records == get_or_create_daily_record(t.daily_records, date)
        i == record_index(records, date)
    IN  save_data([t EXCEPT !.raised = None,
                            !.daily_records =
                                [records EXCEPT ![i].meals = Append(@, meal)]])

\* today is datetime.date.today().isoformat(); with no user the assignment
\* of line 446 raises, after the record was changed and before save_data
update_weight(t, date, weight_kg, today) ==
    LET records == get_or_create_daily_record(t.daily_records, date)
        i == record_index(records, date)
        held == [t EXCEPT !.raised = None,
                          !.daily_records = [records EXCEPT ![i].weight_kg = Some(weight_kg)]]
    IN  IF date = today
        THEN IF t.user = Nothing THEN [held EXCEPT !.raised = "AttributeError"]
             ELSE save_data([held EXCEPT !.user[1].current_weight_kg = weight_kg])
        ELSE save_data(held)

\* datetime.date.today().isoformat() and the dates the calls are made for
Today == "2026-11-01"
Dates == {Today, "2026-10-31"}

\* what has been entered for a date, before anything is
NothingEntered == [exercises |-> <<>>, meals |-> <<>>, weight_kg |-> Nothing]

VARIABLES
    pc,           \* position in Game.run: "input", "update" or "done"
    key,          \* the key read by getch in this iteration
    player1,
    player2,
    bullets,
    obstacles,
    game_over,
    winner,
    ticks,        \* completed loop iterations
    hits,         \* per bullet of the last check_collisions: what it matched
    winners_set,  \* every assignment to winner, in order
    ip,           \* how many of the recorded keys have been delivered
    fired_ago,    \* per tank: clock units since its last bullet, -1 if none yet
    fire_gap,     \* per tank: clock units between its last two bullets, -1 if none
    user,          \* WeightLossTracker.user
    daily_records,
    current_plan,
    data_file,     \* the content of the file save_data writes
    last_call,     \* the last call on the tracker and the exception it ended in
    n_calls,       \* calls made on the tracker
    entered        \* per date: what the calls have entered for it

game_vars == <<pc, key, player1, player2, bullets, obstacles, game_over, winner,
               ticks, hits, winners_set, ip, fired_ago, fire_gap>>

tracker_vars == <<user, daily_records, current_plan, data_file, last_call, n_calls,
                  entered>>

vars == <<game_vars, tracker_vars>>

\* WeightLossTracker.__init__ with no data file: nothing called, nothing entered
TrackerInit ==
    /\ user = WeightLossTracker.user
    /\ daily_records = WeightLossTracker.daily_records
    /\ current_plan = WeightLossTracker.current_plan
    /\ data_file = WeightLossTracker.data_file
    /\ last_call = [op |-> "__init__", date |-> None, raised |-> None]
    /\ n_calls = 0
    /\ entered = [date \in Dates |-> NothingEntered]

(***************************************************************************)
(* Game                                                                    *)
(***************************************************************************)
\* the cells init_game can place an obstacle on
ObstacleCells == {<<x, y>> : x \in 10 .. (max_x - 10), y \in 3 .. (max_y - 3)}

\* init_game: the placements sampled put the obstacles of odd index on the
\* first cell, (10, 3), and those of even index together on any one cell
PlaceObstacles(cell) ==
    [i \in 1 .. num_obstacles |->
        IF i % 2 = 1 THEN Obstacle(10, 3) ELSE Obstacle(cell[1], cell[2])]

Init ==
    /\ pc = "input"
    /\ key = NoKey
    /\ player1 = Tank(5, max_y \div 2, "^")
    /\ player2 = Tank(max_x - 5, max_y \div 2, "^")
    /\ bullets = <<>>
    /\ \E cell \in ObstacleCells : obstacles = PlaceObstacles(cell)
    /\ game_over = FALSE
    /\ winner = None
    /\ ticks = 0
    /\ hits = <<>>
    /\ winners_set = <<>>
    /\ ip = 0
    /\ fired_ago = <<-1, -1>>
    /\ fire_gap = <<-1, -1>>
    /\ TrackerInit

\* faulty variant of on_quit: the quit key is ignored
on_quit_ignored(g) == g

\* the quit branch of handle_input (lines 180-181)
on_quit(g) == [g EXCEPT !.game_over = TRUE]

\* faulty variant of handle_input: a key bound to nothing ends the game
handle_input_unbound_quits(g, k) ==
    IF k = NoKey THEN g
    ELSE IF k = "w" THEN [g EXCEPT !.player1 = move(@, 0, -1)]
    ELSE IF k = "s" THEN [g EXCEPT !.player1 = move(@, 0, 1)]
    ELSE IF k = "a" THEN [g EXCEPT !.player1 = move(@, -1, 0)]
    ELSE IF k = "d" THEN [g EXCEPT !.player1 = move(@, 1, 0)]
    ELSE IF k = " " THEN [g EXCEPT !.player1 = shoot(g.player1).tank,
                                   !.bullets = @ \o shoot(g.player1).made]
    ELSE IF k = "KEY_UP" THEN [g EXCEPT !.player2 = move(@, 0, -1)]
    ELSE IF k = "KEY_DOWN" THEN [g EXCEPT !.player2 = move(@, 0, 1)]
    ELSE IF k = "KEY_LEFT" THEN [g EXCEPT !.player2 = move(@, -1, 0)]
    ELSE IF k = "KEY_RIGHT" THEN [g EXCEPT !.player2 = move(@, 1, 0)]
    ELSE IF k = "\n" THEN [g EXCEPT !.player2 = shoot(g.player2).tank,
                                    !.bullets = @ \o shoot(g.player2).made]
    ELSE on_quit(g)

\* handle_input on the game fields it can touch
handle_input(g, k) ==
    IF k = NoKey THEN g
    ELSE IF k = "w" THEN [g EXCEPT !.player1 = move(@, 0, -1)]
    ELSE IF k = "s" THEN [g EXCEPT !.player1 = move(@, 0, 1)]
    ELSE IF k = "a" THEN [g EXCEPT !.player1 = move(@, -1, 0)]
    ELSE IF k = "d" THEN [g EXCEPT !.player1 = move(@, 1, 0)]
    ELSE IF k = " " THEN [g EXCEPT !.player1 = shoot(g.player1).tank,
                                   !.bullets = @ \o shoot(g.player1).made]
    ELSE IF k = "KEY_UP" THEN [g EXCEPT !.player2 = move(@, 0, -1)]
    ELSE IF k = "KEY_DOWN" THEN [g EXCEPT !.player2 = move(@, 0, 1)]
    ELSE IF k = "KEY_LEFT" THEN [g EXCEPT !.player2 = move(@, -1, 0)]
    ELSE IF k = "KEY_RIGHT" THEN [g EXCEPT !.player2 = move(@, 1, 0)]
    ELSE IF k = "\n" THEN [g EXCEPT !.player2 = shoot(g.player2).tank,
                                    !.bullets = @ \o shoot(g.player2).made]
    ELSE IF k = "q" THEN on_quit(g)
    ELSE g

\* faulty variant of CollidePlayer1: the tank that died is named the winner
CollidePlayer1_self_wins(c, i) ==
    IF c.player1.alive /\ c.bullets[i].x = c.player1.x /\ c.bullets[i].y = c.player1.y
    THEN LET t == hit(c.player1)
         IN  [c EXCEPT !.player1 = t,
                       !.bullets[i].alive = FALSE,
                       !.log[i] = Append(@, "player1"),
                       !.winner = IF ~t.alive THEN "Player 1" ELSE @,
                       !.game_over = IF ~t.alive THEN TRUE ELSE @,
                       !.winners_set = IF ~t.alive THEN Append(@, "Player 1") ELSE @]
    ELSE c

\* faulty variant of CollidePlayer1: a bullet of Player 1 does not hit Player 1
CollidePlayer1_spares_owner(c, i) ==
    IF /\ c.player1.alive /\ c.bullets[i].x = c.player1.x /\ c.bullets[i].y = c.player1.y
       /\ c.bullets[i].owner # 1
    THEN LET t == hit(c.player1)
         IN  [c EXCEPT !.player1 = t,
                       !.bullets[i].alive = FALSE,
                       !.log[i] = Append(@, "player1"),
                       !.winner = IF ~t.alive THEN "Player 2" ELSE @,
                       !.game_over = IF ~t.alive THEN TRUE ELSE @,
                       !.winners_set = IF ~t.alive THEN Append(@, "Player 2") ELSE @]
    ELSE c

\* faulty variant of CollidePlayer1: a winner that is set is kept
CollidePlayer1_keeps_winner(c, i) ==
    IF c.player1.alive /\ c.bullets[i].x = c.player1.x /\ c.bullets[i].y = c.player1.y
    THEN LET t == hit(c.player1)
         IN  [c EXCEPT !.player1 = t,
                       !.bullets[i].alive = FALSE,
                       !.log[i] = Append(@, "player1"),
                       !.winner = IF ~t.alive /\ @ = None THEN "Player 2" ELSE @,
                       !.game_over = IF ~t.alive THEN TRUE ELSE @,
                       !.winners_set = IF ~t.alive /\ c.winner = None
                                       THEN Append(@, "Player 2") ELSE @]
    ELSE c

\* one bullet against Player 1 (lines 190-195)
CollidePlayer1(c, i) ==
    IF c.player1.alive /\ c.bullets[i].x = c.player1.x /\ c.bullets[i].y = c.player1.y
    THEN LET t == hit(c.player1)
         IN  [c EXCEPT !.player1 = t,
                       !.bullets[i].alive = FALSE,
                       !.log[i] = Append(@, "player1"),
                       !.winner = IF ~t.alive THEN "Player 2" ELSE @,
                       !.game_over = IF ~t.alive THEN TRUE ELSE @,
                       !.winners_set = IF ~t.alive THEN Append(@, "Player 2") ELSE @]
    ELSE c

\* faulty variant of CollidePlayer2: the bullet that hit stays alive
CollidePlayer2_bullet_lives(c, i) ==
    IF c.player2.alive /\ c.bullets[i].x = c.player2.x /\ c.bullets[i].y = c.player2.y
    THEN LET t == hit(c.player2)
         IN  [c EXCEPT !.player2 = t,
                       !.log[i] = Append(@, "player2"),
                       !.winner = IF ~t.alive THEN "Player 1" ELSE @,
                       !.game_over = IF ~t.alive THEN TRUE ELSE @,
                       !.winners_set = IF ~t.alive THEN Append(@, "Player 1") ELSE @]
    ELSE c

\* faulty variant of CollidePlayer2: the death of Player 2 does not end the game
CollidePlayer2_game_goes_on(c, i) ==
    IF c.player2.alive /\ c.bullets[i].x = c.player2.x /\ c.bullets[i].y = c.player2.y
    THEN LET t == hit(c.player2)
         IN  [c EXCEPT !.player2 = t,
                       !.bullets[i].alive = FALSE,
                       !.log[i] = Append(@, "player2"),
                       !.winner = IF ~t.alive THEN "Player 1" ELSE @,
                       !.winners_set = IF ~t.alive THEN Append(@, "Player 1") ELSE @]
    ELSE c

\* one bullet against Player 2 (lines 198-203)
CollidePlayer2(c, i) ==
    IF c.player2.alive /\ c.bullets[i].x = c.player2.x /\ c.bullets[i].y = c.player2.y
    THEN LET t == hit(c.player2)
         IN  [c EXCEPT !.player2 = t,
                       !.bullets[i].alive = FALSE,
                       !.log[i] = Append(@, "player2"),
                       !.winner = IF ~t.alive THEN "Player 1" ELSE @,
                       !.game_over = IF ~t.alive THEN TRUE ELSE @,
                       !.winners_set = IF ~t.alive THEN Append(@, "Player 1") ELSE @]
    ELSE c

\* one bullet against every obstacle (lines 206-210)
CollideObstacles(c, i) ==
    LET matched == {j \in 1 .. Len(c.obstacles) :
                        /\ c.obstacles[j].alive
                        /\ c.bullets[i].x = c.obstacles[j].x
                        /\ c.bullets[i].y = c.obstacles[j].y}
    IN  IF matched = {} THEN c
        ELSE [c EXCEPT !.bullets[i].alive = FALSE,
                       !.obstacles = [j \in 1 .. Len(c.obstacles) |->
                                        IF j \in matched /\ c.obstacles[j].destructible
                                        THEN [c.obstacles[j] EXCEPT !.alive = FALSE]
                                        ELSE c.obstacles[j]],
                       !.log[i] = @ \o [n \in 1 .. Cardinality(matched) |-> "obstacle"]]

\* the body of the loop over the bullets (lines 185-210)
CollideBullet(c, i) ==
    IF ~c.bullets[i].alive THEN c
    ELSE CollideObstacles(CollidePlayer2(CollidePlayer1(c, i), i), i)

RECURSIVE CollideFrom(_, _)
CollideFrom(c, i) ==
    IF i > Len(c.bullets) THEN c ELSE CollideFrom(CollideBullet(c, i), i + 1)

Alive(e) == e.alive

\* faulty variant of check_collisions: the destroyed obstacles stay in the list
check_collisions_keeps_obstacles(g) ==
    LET c == CollideFrom([g EXCEPT !.log = [i \in 1 .. Len(g.bullets) |-> <<>>]], 1)
    IN  [c EXCEPT !.bullets = SelectSeq(c.bullets, Alive),
                  !.log = [i \in 1 .. Len(c.bullets) |->
                             [targets |-> c.log[i], alive |-> c.bullets[i].alive,
                              x |-> c.bullets[i].x, y |-> c.bullets[i].y,
                              owner |-> c.bullets[i].owner]]]

\* check_collisions: the loop, then the two compactions; hits keeps, for every
\* bullet of the list the loop ran over, what it matched and whether it is
\* alive after the loop
check_collisions(g) ==
    LET c == CollideFrom([g EXCEPT !.log = [i \in 1 .. Len(g.bullets) |-> <<>>]], 1)
    IN  [c EXCEPT !.bullets = SelectSeq(c.bullets, Alive),
                  !.obstacles = SelectSeq(c.obstacles, Alive),
                  !.log = [i \in 1 .. Len(c.bullets) |->
                             [targets |-> c.log[i], alive |-> c.bullets[i].alive,
                              x |-> c.bullets[i].x, y |-> c.bullets[i].y,
                              owner |-> c.bullets[i].owner]]]

\* faulty variant of update: two tanks on one cell hit each other
update_ramming(g) ==
    LET u == check_collisions([g EXCEPT !.bullets = [i \in 1 .. Len(g.bullets) |->
                                                       bullet_update(g.bullets[i])]])
    IN  IF u.player1.x = u.player2.x /\ u.player1.y = u.player2.y
        THEN [u EXCEPT !.player1 = hit(@), !.player2 = hit(@)]
        ELSE u

\* update: every bullet's update, then check_collisions
update(g) ==
    check_collisions([g EXCEPT !.bullets = [i \in 1 .. Len(g.bullets) |->
                                               bullet_update(g.bullets[i])]])

\* time.sleep and the work of one iteration: d units pass on the clock
Elapse(g, d) ==
    [g EXCEPT !.player1.since_shot = Min(@ + d, shot_cooldown + 1),
              !.player2.since_shot = Min(@ + d, shot_cooldown + 1),
              !.bullets = [i \in 1 .. Len(g.bullets) |->
                             [g.bullets[i] EXCEPT !.since_move = Min(@ + d, speed + 1),
                                                  !.age = Min(@ + d, MaxAge)]]]

Game ==
    [player1 |-> player1, player2 |-> player2, bullets |-> bullets,
     obstacles |-> obstacles, game_over |-> game_over, winner |-> winner,
     winners_set |-> winners_set, log |-> hits]

Store(g) ==
    /\ player1' = g.player1
    /\ player2' = g.player2
    /\ bullets' = g.bullets
    /\ obstacles' = g.obstacles
    /\ game_over' = g.game_over
    /\ winner' = g.winner
    /\ winners_set' = g.winners_set
    /\ hits' = g.log

\* the clock units since a tank's last bullet, d units later
Later(ago, d) == IF ago = -1 THEN -1 ELSE Min(ago + d, shot_cooldown + 1)

\* getch delivers k and handle_input dispatches it; a bullet appended for the
\* fire key of a tank is noted as that tank's
Dispatch(k) ==
    LET g == handle_input(Game, k)
        made == Len(g.bullets) > Len(bullets)
        by1 == made /\ k = " "
        by2 == made /\ k = "\n"
    IN  /\ key' = k
        /\ Store(IF by1 THEN [g EXCEPT !.bullets[Len(g.bullets)].owner = 1]
                 ELSE IF by2 THEN [g EXCEPT !.bullets[Len(g.bullets)].owner = 2]
                 ELSE g)
        /\ fired_ago' = <<IF by1 THEN 0 ELSE fired_ago[1], IF by2 THEN 0 ELSE fired_ago[2]>>
        /\ fire_gap' = <<IF by1 THEN fired_ago[1] ELSE fire_gap[1],
                         IF by2 THEN fired_ago[2] ELSE fire_gap[2]>>
        /\ pc' = "update"
        /\ UNCHANGED <<ticks, tracker_vars>>

\* run, lines 292-293: getch and handle_input, for any key
HandleInput ==
    /\ pc = "input"
    /\ ip = 0
    /\ ticks < MaxTicks
    /\ \E k \in Keys : Dispatch(k)
    /\ UNCHANGED ip

\* a recorded game: Player 1 turns right, clears the obstacles with one shot
\* and steps twice into its own bullets; Player 2 turns left and does the same;
\* then Player 1 shoots at Player 2 and steps into one more bullet of its own
Recorded ==
    <<"d", " ", "KEY_LEFT", "\n", "KEY_LEFT", " ", "d", "\n", "KEY_LEFT", " ", "d",
      " ", NoKey, NoKey, " ", "d">>

\* run, lines 292-293, when getch delivers the recorded keys from the first
\* iteration on, in order, and the quit key in place of any of them
ReplayInput ==
    /\ pc = "input"
    /\ ip = ticks
    /\ ip < Len(Recorded)
    /\ \/ Dispatch(Recorded[ip + 1]) /\ ip' = ip + 1
       \/ Dispatch("q") /\ ip' = ip

\* faulty variant of run_continues: the loop is never left
run_continues_forever(over) == "input"

\* run, line 291: the loop test
run_continues(over) == IF over THEN "done" ELSE "input"

\* run, lines 294-296 and the loop test of line 291: update, draw, sleep
Update ==
    /\ pc = "update"
    /\ LET g == update(Game)
       IN  \E d \in TickDurations :
              /\ Store(Elapse(g, d))
              /\ fired_ago' = <<Later(fired_ago[1], d), Later(fired_ago[2], d)>>
    /\ pc' = run_continues(game_over')
    /\ key' = NoKey
    /\ ticks' = ticks + 1
    /\ UNCHANGED <<ip, fire_gap, tracker_vars>>

\* the keys of a run are arbitrary for MaxTicks iterations, or the recorded game
Next == HandleInput \/ ReplayInput \/ Update

Spec == Init /\ [][Next]_vars

\* run, lines 292-293, when getch delivers for MaxWalk iterations only the
\* move keys that bring the tanks toward each other and along the columns:
\* long enough for the two tanks to meet
WalkKeys == {"w", "s", "d", "KEY_UP", "KEY_DOWN", "KEY_LEFT"}

WalkInput ==
    /\ pc = "input"
    /\ ticks < MaxWalk
    /\ \E k \in WalkKeys : Dispatch(k)
    /\ UNCHANGED ip

NextWalk == WalkInput \/ Update

SpecWalk == Init /\ [][NextWalk]_vars

(***************************************************************************)
(* WeightLossTracker: calls made on one tracker constructed with no data   *)
(* file, MaxCalls of them.                                                 *)
(***************************************************************************)
Weights == {78, 79}

\* the arguments create_user is called with
Profiles ==
    {[name |-> "a", age |-> 30, gender |-> "male", height_cm |-> 180,
      current_weight_kg |-> 80, target_weight_kg |-> 70, activity_level |-> "sedentary"],
     [name |-> "b", age |-> 25, gender |-> "female", height_cm |-> 160,
      current_weight_kg |-> 60, target_weight_kg |-> 55, activity_level |-> "very_active"],
     [name |-> "c", age |-> 30, gender |-> "other", height_cm |-> 180,
      current_weight_kg |-> 80, target_weight_kg |-> 70, activity_level |-> "sedentary"]}

\* name and activity_type of the exercises entered, each for 30 minutes
Activities == {<<"jog", "running_slow">>, <<"stretch", "">>}

MealTypes == {"breakfast", "lunch"}

Oatmeal == Food("oatmeal", 150, 5, 27, 3)

Tracker ==
    [user |-> user, daily_records |-> daily_records, current_plan |-> current_plan,
     data_file |-> data_file, raised |-> None]

\* the tracker after a call, the call and how it ended
StoreTracker(t, op, date) ==
    /\ user' = t.user
    /\ daily_records' = t.daily_records
    /\ current_plan' = t.current_plan
    /\ data_file' = t.data_file
    /\ last_call' = [op |-> op, date |-> date, raised |-> t.raised]
    /\ n_calls' = n_calls + 1

GameOff ==
    /\ pc = "done" /\ key = NoKey /\ player1 = None /\ player2 = None
    /\ bullets = <<>> /\ obstacles = <<>> /\ game_over = TRUE /\ winner = None
    /\ ticks = 0 /\ hits = <<>> /\ winners_set = <<>> /\ ip = 0
    /\ fired_ago = <<-1, -1>> /\ fire_gap = <<-1, -1>>

InitTracker == GameOff /\ TrackerInit

CreateUser ==
    /\ n_calls < MaxCalls
    /\ \E p \in Profiles : StoreTracker(create_user(Tracker, p), "create_user", None)
    /\ UNCHANGED <<entered, game_vars>>

GeneratePlan ==
    /\ n_calls < MaxCalls
    /\ \E aggressive \in BOOLEAN :
          StoreTracker(generate_plan(Tracker, 12, aggressive), "generate_plan", None)
    /\ UNCHANGED <<entered, game_vars>>

\* what was entered is noted when the call got as far as the record
AddExercise ==
    /\ n_calls < MaxCalls
    /\ \E date \in Dates, a \in Activities :
          LET t == add_exercise(Tracker, date, a[1], 30, a[2], "moderate")
          IN  /\ StoreTracker(t, "add_exercise", date)
              /\ entered' = IF t.raised = "ValueError" THEN entered
                            ELSE [entered EXCEPT ![date].exercises = Append(@, a[1])]
    /\ UNCHANGED game_vars

AddMeal ==
    /\ n_calls < MaxCalls
    /\ \E date \in Dates, meal_type \in MealTypes :
          /\ StoreTracker(add_meal(Tracker, date, meal_type, <<Oatmeal>>, "12:30"),
                          "add_meal", date)
          /\ entered' = [entered EXCEPT ![date].meals = Append(@, meal_type)]
    /\ UNCHANGED game_vars

UpdateWeight ==
    /\ n_calls < MaxCalls
    /\ \E date \in Dates, weight_kg \in Weights :
          /\ StoreTracker(update_weight(Tracker, date, weight_kg, Today),
                          "update_weight", date)
          /\ entered' = [entered EXCEPT ![date].weight_kg = Some(weight_kg)]
    /\ UNCHANGED game_vars

NextTracker == CreateUser \/ GeneratePlan \/ AddExercise \/ AddMeal \/ UpdateWeight

SpecTracker == InitTracker /\ [][NextTracker]_vars

(***************************************************************************)
(* Views used by the properties: the fields of the code, without the clock *)
(* differences the model keeps in since_shot and since_move.               *)
(***************************************************************************)
TankView(t) ==
    [x |-> t.x, y |-> t.y, symbol |-> t.symbol, alive |-> t.alive,
     direction |-> t.direction, health |-> t.health]

BulletsView(bs) ==
    [i \in 1 .. Len(bs) |->
        [x |-> bs[i].x, y |-> bs[i].y, direction |-> bs[i].direction, alive |-> bs[i].alive]]

\* a bullet of the collision log matched the target named who
HitOn(log, who) ==
    \E i \in 1 .. Len(log) : \E j \in 1 .. Len(log[i].targets) : log[i].targets[j] = who

\* every bullet of the collision log that matched who is dead
HittersDead(log, who) ==
    \A i \in 1 .. Len(log) :
        (\E j \in 1 .. Len(log[i].targets) : log[i].targets[j] = who) => ~log[i].alive

(***************************************************************************)
(* C1: for each tank health is in 0..3, alive is true exactly when health  *)
(* is above 0, and no step increases health.                               *)
(***************************************************************************)
HealthOK(t) == t.health \in 0 .. initial_health /\ (t.alive <=> t.health > 0)

C1_Health ==
    /\ [](HealthOK(player1) /\ HealthOK(player2))
    /\ [][player1'.health <= player1.health /\ player2'.health <= player2.health]_vars

\* a tank was hit down to health 0 and is not alive; the other was hit too
C1_Witness ==
    /\ player2.health = 0 /\ ~player2.alive
    /\ player1.health < initial_health /\ player1.alive

(***************************************************************************)
(* C2: each tank is strictly inside the border in every state.             *)
(***************************************************************************)
C2_Inside ==
    /\ 0 < player1.x /\ player1.x < max_x - 1 /\ 0 < player1.y /\ player1.y < max_y - 1
    /\ 0 < player2.x /\ player2.x < max_x - 1 /\ 0 < player2.y /\ player2.y < max_y - 1

\* Player 1 stands on the last row inside the border after two moves down,
\* the second of which was refused
C2_Witness ==
    /\ pc = "update" /\ key = "s" /\ ticks = 1
    /\ player1.y = max_y - 2 /\ player1.y = (max_y \div 2) + 1

(***************************************************************************)
(* C3, as claimed: a winner is set only if exactly one tank has health 0,  *)
(* and winner is assigned at most once.                                    *)
(***************************************************************************)
C3_Original ==
    /\ winner # None => ((player1.health = 0) # (player2.health = 0))
    /\ Len(winners_set) <= 1

(***************************************************************************)
(* C3, amended: a winner is set only if a tank has health 0; with exactly  *)
(* one tank at health 0 the winner is the other tank, assigned once; a     *)
(* second, different, assignment happens only in the collision resolution  *)
(* in which both tanks reach health 0, the recorded winner being the last  *)
(* assigned; and no later step changes a winner that is set.               *)
(***************************************************************************)
C3_WinnerState ==
    /\ winner # None => (player1.health = 0 \/ player2.health = 0)
    /\ winner = None <=> winners_set = <<>>
    /\ winners_set # <<>> => winner = winners_set[Len(winners_set)]
    /\ Len(winners_set) <= 2
    /\ (player1.health = 0 /\ player2.health > 0) => winners_set = <<"Player 2">>
    /\ (player2.health = 0 /\ player1.health > 0) => winners_set = <<"Player 1">>
    /\ Len(winners_set) = 2 =>
          /\ player1.health = 0 /\ player2.health = 0
          /\ winners_set[1] # winners_set[2]

C3_Amended == []C3_WinnerState /\ [][winner # None => winner' = winner]_vars

\* both tanks died in one collision resolution: winner was assigned twice
C3_Witness == Len(winners_set) = 2 /\ player1.health = 0 /\ player2.health = 0

(***************************************************************************)
(* C4, as claimed: in one collision resolution a bullet matches at most    *)
(* one target.                                                             *)
(***************************************************************************)
C4_OneTarget == \A i \in 1 .. Len(hits) : Len(hits[i].targets) <= 1

(***************************************************************************)
(* C5, as claimed: once game_over is true it stays true and no step        *)
(* changes a tank, a bullet, the obstacles or the winner.                  *)
(***************************************************************************)
C5_Original ==
    [][game_over =>
          /\ game_over'
          /\ TankView(player1)' = TankView(player1)
          /\ TankView(player2)' = TankView(player2)
          /\ BulletsView(bullets)' = BulletsView(bullets)
          /\ obstacles' = obstacles
          /\ winner' = winner]_vars

(***************************************************************************)
(* C5, amended: once game_over is true it stays true; the only step taken  *)
(* with game_over true is the update, draw and sleep of the iteration that *)
(* set it, after which the loop is left and nothing happens any more.      *)
(***************************************************************************)
C5_Amended == [][game_over => (pc = "update" /\ game_over' /\ pc' = "done")]_vars

\* the loop was left after a kill
C5_Witness == pc = "done" /\ game_over /\ winner # None

(***************************************************************************)
(* C6, as claimed: the iteration in which quit is dispatched ends with the *)
(* loop left, game_over true and no winner.                                *)
(***************************************************************************)
C6_Original ==
    [][(pc = "update" /\ key = "q") => (pc' = "done" /\ game_over' /\ winner' = None)]_vars

(***************************************************************************)
(* C6, amended: dispatching quit sets game_over and no winner; the         *)
(* iteration ends with the loop left and game_over true, and with no       *)
(* winner unless a tank's health reaches 0 in the collision resolution of  *)
(* that same iteration.                                                    *)
(***************************************************************************)
C6_Amended ==
    [][(pc = "update" /\ key = "q") =>
          /\ game_over /\ winner = None
          /\ pc' = "done" /\ game_over'
          /\ winner' = None <=> (player1'.health > 0 /\ player2'.health > 0)]_vars

\* the loop was left with no winner: the session was quit
C6_Witness == pc = "done" /\ game_over /\ winner = None /\ Len(bullets) > 0

(***************************************************************************)
(* C7, as claimed: a tank of health 1 hit in an update has health 0 and is *)
(* not alive after it, game_over is true, the winner is the other tank and *)
(* the bullet is dead.                                                     *)
(***************************************************************************)
C7_Original ==
    [][/\ (pc = "update" /\ player1.health = 1 /\ HitOn(hits', "player1")) =>
            /\ player1'.health = 0 /\ ~player1'.alive /\ game_over'
            /\ winner' = "Player 2"
            /\ HittersDead(hits', "player1")
       /\ (pc = "update" /\ player2.health = 1 /\ HitOn(hits', "player2")) =>
            /\ player2'.health = 0 /\ ~player2'.alive /\ game_over'
            /\ winner' = "Player 1"
            /\ HittersDead(hits', "player2")]_vars

(***************************************************************************)
(* C7, amended: as claimed, except that the winner is the other tank when  *)
(* the other tank is alive after the update; when both tanks die in the    *)
(* update the winner is the one assigned last.                             *)
(***************************************************************************)
C7_Amended ==
    [][/\ (pc = "update" /\ player1.health = 1 /\ HitOn(hits', "player1")) =>
            /\ player1'.health = 0 /\ ~player1'.alive /\ game_over'
            /\ player2'.alive => winner' = "Player 2"
            /\ winner' = winners_set'[Len(winners_set')]
            /\ HittersDead(hits', "player1")
            /\ Len(bullets') = Cardinality({i \in 1 .. Len(hits') : hits'[i].alive})
       /\ (pc = "update" /\ player2.health = 1 /\ HitOn(hits', "player2")) =>
            /\ player2'.health = 0 /\ ~player2'.alive /\ game_over'
            /\ player1'.alive => winner' = "Player 1"
            /\ winner' = winners_set'[Len(winners_set')]
            /\ HittersDead(hits', "player2")
            /\ Len(bullets') = Cardinality({i \in 1 .. Len(hits') : hits'[i].alive})]_vars

\* Player 2 was killed by a bullet and Player 1 is alive and the winner
C7_Witness ==
    /\ pc = "done" /\ HitOn(hits, "player2") /\ player2.health = 0
    /\ player1.alive /\ winner = "Player 1"

(***************************************************************************)
(* C8: more than the cooldown lies between two successive bullets of one   *)
(* tank.                                                                   *)
(***************************************************************************)
C8_Cooldown == \A t \in 1 .. 2 : fire_gap[t] = -1 \/ fire_gap[t] > shot_cooldown

\* each tank has fired twice
C8_Witness == fire_gap[1] # -1 /\ fire_gap[2] # -1

(***************************************************************************)
(* C9: a fire key that arrives no more than the cooldown after the tank's  *)
(* last bullet changes nothing: no tank field (the last-shot time          *)
(* included), no bullet, no obstacle, not game_over nor winner.            *)
(***************************************************************************)
TooEarly(t) == fired_ago[t] # -1 /\ fired_ago[t] <= shot_cooldown

C9_Rejected ==
    [][/\ (pc = "input" /\ key' = " " /\ TooEarly(1)) =>
            UNCHANGED <<player1, player2, bullets, obstacles, game_over, winner>>
       /\ (pc = "input" /\ key' = "\n" /\ TooEarly(2)) =>
            UNCHANGED <<player1, player2, bullets, obstacles, game_over, winner>>]_vars

\* Player 1's fire key arrived exactly the cooldown after its last bullet
C9_Witness == pc = "update" /\ key = " " /\ fired_ago[1] = shot_cooldown

(***************************************************************************)
(* C10: a fire key that arrives more than the cooldown after the tank's    *)
(* last bullet (or before any) appends exactly one bullet, one step ahead  *)
(* of the tank in its heading and with its heading, and leaves the tank's  *)
(* position, heading, glyph and health as they were.                       *)
(***************************************************************************)
Ahead(t) ==
    [x |-> t.x + Direction[t.direction][1], y |-> t.y + Direction[t.direction][2],
     direction |-> t.direction, alive |-> TRUE]

Fires(t, before, after) ==
    /\ Len(after) = Len(before) + 1
    /\ SubSeq(after, 1, Len(before)) = before
    /\ BulletsView(after)[Len(after)] = Ahead(t)

C10_Fire ==
    [][/\ (pc = "input" /\ key' = " " /\ ~TooEarly(1)) =>
            /\ Fires(player1, bullets, bullets')
            /\ TankView(player1)' = TankView(player1)
            /\ player2' = player2
       /\ (pc = "input" /\ key' = "\n" /\ ~TooEarly(2)) =>
            /\ Fires(player2, bullets, bullets')
            /\ TankView(player2)' = TankView(player2)
            /\ player1' = player1]_vars

\* Player 2, turned left, has just fired: its bullet is on the cell to its left
C10_Witness ==
    /\ pc = "update" /\ key = "\n" /\ fired_ago[2] = 0
    /\ player2.direction = "LEFT"
    /\ Len(bullets) > 0
    /\ bullets[Len(bullets)].x = player2.x - 1 /\ bullets[Len(bullets)].y = player2.y
    /\ bullets[Len(bullets)].direction = "LEFT"

(***************************************************************************)
(* C11, as claimed: a bullet is always on the line from its first cell      *)
(* along its heading, and the update made when t has elapsed since its      *)
(* creation leaves it one cell further for every 0.1 s (speed) in t, so     *)
(* three cells further at 0.3 s.                                            *)
(***************************************************************************)
Abs(n) == IF n < 0 THEN -n ELSE n

\* the cells between the first cell of bullet b and the cell (x, y)
Cells(b, x, y) == Abs(x - b.x0) + Abs(y - b.y0)

\* the cells a bullet has advanced since its creation
Moved(b) == Cells(b, b.x, b.y)

OnLine(b) ==
    /\ b.x = b.x0 + Moved(b) * Direction[b.direction][1]
    /\ b.y = b.y0 + Moved(b) * Direction[b.direction][2]

C11_Original ==
    /\ [](\A i \in 1 .. Len(bullets) : OnLine(bullets[i]))
    /\ [][pc = "update" =>
            \A i \in 1 .. Len(bullets) :
                bullets[i].age < MaxAge =>
                    Cells(bullets[i], hits'[i].x, hits'[i].y) = bullets[i].age \div speed]_vars

(***************************************************************************)
(* C11, amended: a bullet is always on the line from its first cell along   *)
(* its heading; in an update it advances exactly one cell if more than      *)
(* 0.1 s has elapsed since its last advance (or its creation) and does not  *)
(* advance otherwise, however long the elapsed time is; so n advances take  *)
(* more than n times 0.1 s, and after 0.3 s a bullet has advanced at most   *)
(* two cells.                                                               *)
(***************************************************************************)
AdvancedBy(b, h) ==
    IF b.since_move > speed
    THEN h.x = b.x + Direction[b.direction][1] /\ h.y = b.y + Direction[b.direction][2]
    ELSE h.x = b.x /\ h.y = b.y

C11_Amended ==
    /\ [](\A i \in 1 .. Len(bullets) :
            /\ OnLine(bullets[i])
            /\ bullets[i].age < MaxAge =>
                  (Moved(bullets[i]) = 0 \/ Moved(bullets[i]) * speed < bullets[i].age))
    /\ [][pc = "update" =>
            /\ Len(hits') = Len(bullets)
            /\ \A i \in 1 .. Len(bullets) : AdvancedBy(bullets[i], hits'[i])]_vars

\* 0.3 s after its creation a bullet heading up has advanced one cell
C11_Witness ==
    \E i \in 1 .. Len(bullets) :
        /\ bullets[i].age = 3 * speed /\ bullets[i].direction = "UP"
        /\ Moved(bullets[i]) = 1 /\ bullets[i].y = bullets[i].y0 - 1

(***************************************************************************)
(* C12: after every update no dead bullet and no destroyed obstacle is in   *)
(* the two lists; every bullet that matched an obstacle is dead and gone    *)
(* from the bullet list, which keeps exactly the bullets alive after the    *)
(* collision loop, in order; and the obstacle list keeps exactly the        *)
(* obstacles that are on no cell where a bullet matched an obstacle.        *)
(***************************************************************************)
CellsOf(seq) == [i \in 1 .. Len(seq) |-> <<seq[i].x, seq[i].y>>]

StillAlive(e) == e.alive

ObstacleHitters(log) ==
    {i \in 1 .. Len(log) : \E j \in 1 .. Len(log[i].targets) : log[i].targets[j] = "obstacle"}

C12_Compacted ==
    /\ [](/\ \A i \in 1 .. Len(bullets) : bullets[i].alive
          /\ \A j \in 1 .. Len(obstacles) : obstacles[j].alive)
    /\ [][pc = "update" =>
            LET NotHit(o) == \A i \in ObstacleHitters(hits') :
                                ~(o.x = hits'[i].x /\ o.y = hits'[i].y)
            IN  /\ \A i \in ObstacleHitters(hits') : ~hits'[i].alive
                /\ CellsOf(bullets') = CellsOf(SelectSeq(hits', StillAlive))
                /\ obstacles' = SelectSeq(obstacles, NotHit)]_vars

\* a bullet matched obstacles in the last update while another bullet flies on
C12_Witness ==
    /\ pc = "input" /\ Len(obstacles) < num_obstacles /\ Len(bullets) > 0
    /\ \E i \in ObstacleHitters(hits) : ~hits[i].alive

(***************************************************************************)
(* C13: a move key whose target cell is on or beyond the border changes     *)
(* nothing: the tank's position, heading, glyph and every other field are   *)
(* as before, and so is the rest of the game.                               *)
(***************************************************************************)
Player1Keys == [w |-> <<0, -1>>, s |-> <<0, 1>>, a |-> <<-1, 0>>, d |-> <<1, 0>>]

Player2Keys ==
    [KEY_UP |-> <<0, -1>>, KEY_DOWN |-> <<0, 1>>, KEY_LEFT |-> <<-1, 0>>, KEY_RIGHT |-> <<1, 0>>]

OnOrBeyondBorder(x, y) == x <= 0 \/ x >= max_x - 1 \/ y <= 0 \/ y >= max_y - 1

Target(t, delta) == [x |-> t.x + delta[1], y |-> t.y + delta[2]]

C13_Rejected ==
    [][pc = "input" =>
          /\ \A k \in DOMAIN Player1Keys :
                (key' = k /\ OnOrBeyondBorder(Target(player1, Player1Keys[k]).x,
                                              Target(player1, Player1Keys[k]).y)) =>
                    UNCHANGED <<player1, player2, bullets, obstacles, game_over, winner>>
          /\ \A k \in DOMAIN Player2Keys :
                (key' = k /\ OnOrBeyondBorder(Target(player2, Player2Keys[k]).x,
                                              Target(player2, Player2Keys[k]).y)) =>
                    UNCHANGED <<player1, player2, bullets, obstacles, game_over, winner>>]_vars

\* Player 1, heading left on the last row inside the border, was sent down:
\* it still heads left
C13_Witness ==
    /\ pc = "update" /\ key = "s"
    /\ player1.y = max_y - 2 /\ player1.direction = "LEFT" /\ player1.symbol = "<"

(***************************************************************************)
(* C14: game_over becomes true only by the quit key in input handling or by *)
(* a tank's health reaching 0 in an update; a tank at health 0 implies      *)
(* game_over; and the loop is left at the end of an iteration exactly when  *)
(* quit was dispatched in it or a tank's health reached 0 in it.            *)
(***************************************************************************)
ReachesZero(t) == t.health > 0 /\ t'.health = 0

C14_Leaves ==
    /\ []((player1.health = 0 \/ player2.health = 0) => game_over)
    /\ [](pc # "update" => (pc = "done" <=> game_over))
    /\ [][/\ (pc = "input" /\ game_over' # game_over) => (key' = "q" /\ game_over')
          /\ (pc = "update" /\ game_over' # game_over) =>
                (game_over' /\ (ReachesZero(player1) \/ ReachesZero(player2)))
          /\ pc = "update" =>
                (pc' = "done" <=> (key = "q" \/ ReachesZero(player1) \/ ReachesZero(player2)))
          /\ pc' = "done" => game_over']_vars

\* the loop was left because Player 1's health reached 0
C14_Witness ==
    pc = "done" /\ game_over /\ player1.health = 0 /\ player2.health > 0 /\ winner = "Player 2"

(***************************************************************************)
(* C15: input handling with no key pending (-1), or with a key bound to no  *)
(* action, changes nothing: no tank field (the last-shot time included), no *)
(* bullet, not game_over.  Every iteration handles one key: an input step   *)
(* is followed by the update, changes at most one of the two tanks and adds *)
(* at most one bullet.                                                      *)
(***************************************************************************)
BoundKeys == DOMAIN Player1Keys \cup DOMAIN Player2Keys \cup {" ", "\n", "q"}

C15_NoOp ==
    [][pc = "input" =>
          /\ key' \notin BoundKeys =>
                UNCHANGED <<player1, player2, bullets, obstacles, game_over, winner>>
          /\ pc' = "update"
          /\ player1' = player1 \/ player2' = player2
          /\ Len(bullets') <= Len(bullets) + 1]_vars

\* a key bound to nothing arrived while a bullet was flying
C15_Witness == pc = "update" /\ key = "x" /\ Len(bullets) > 0 /\ ~game_over

(***************************************************************************)
(* C16, as claimed: when both tanks reach health 0 in one update, game_over *)
(* is set and the winner is "Player 1", the assignment made at the death of *)
(* Player 2 overwriting the one made at the death of Player 1.              *)
(***************************************************************************)
BothReachZero == pc = "update" /\ ReachesZero(player1) /\ ReachesZero(player2)

C16_Original == [][BothReachZero => (game_over' /\ winner' = "Player 1")]_vars

(***************************************************************************)
(* C16, amended: when both tanks reach health 0 in one update, game_over is *)
(* set with a winner, and the winner is the one assigned at the death that  *)
(* is processed last: "Player 1" when the bullet that killed Player 1 is    *)
(* the one that killed Player 2 or comes before it in the list, "Player 2"  *)
(* when it comes after it.                                                  *)
(***************************************************************************)
\* the last bullet of the collision log that matched who: a tank is matched
\* while it is alive only, so this is the bullet that killed it
Killer(log, who) ==
    CHOOSE i \in 1 .. Len(log) :
        /\ \E j \in 1 .. Len(log[i].targets) : log[i].targets[j] = who
        /\ \A k \in (i + 1) .. Len(log) :
              \A j \in 1 .. Len(log[k].targets) : log[k].targets[j] # who

C16_Amended ==
    [][BothReachZero =>
          /\ game_over'
          /\ HitOn(hits', "player1") /\ HitOn(hits', "player2")
          /\ winner' = IF Killer(hits', "player1") <= Killer(hits', "player2")
                        THEN "Player 1" ELSE "Player 2"]_vars

\* both tanks died in one update, Player 2 first: the winner is Player 2
C16_Witness ==
    /\ pc = "done" /\ player1.health = 0 /\ player2.health = 0
    /\ HitOn(hits, "player1") /\ HitOn(hits, "player2")
    /\ Killer(hits, "player2") < Killer(hits, "player1")
    /\ winner = "Player 2"

(***************************************************************************)
(* C17: a move key whose target cell is strictly inside the border moves    *)
(* the tank there, whether or not the other tank or an obstacle is on that  *)
(* cell, and changes nothing else; and no step taken while the two tanks    *)
(* share a cell, or a tank stands on an obstacle, changes a health, the     *)
(* obstacles or the bullets.                                                *)
(***************************************************************************)
SameCell(a, b) == a.x = b.x /\ a.y = b.y

OnObstacle(t) == \E j \in 1 .. Len(obstacles) : SameCell(t, obstacles[j])

C17_Overlap ==
    [][/\ pc = "input" =>
            /\ \A k \in DOMAIN Player1Keys :
                  (key' = k /\ ~OnOrBeyondBorder(Target(player1, Player1Keys[k]).x,
                                                 Target(player1, Player1Keys[k]).y)) =>
                      /\ SameCell(player1', Target(player1, Player1Keys[k]))
                      /\ player1'.health = player1.health
                      /\ UNCHANGED <<player2, bullets, obstacles, game_over, winner>>
            /\ \A k \in DOMAIN Player2Keys :
                  (key' = k /\ ~OnOrBeyondBorder(Target(player2, Player2Keys[k]).x,
                                                 Target(player2, Player2Keys[k]).y)) =>
                      /\ SameCell(player2', Target(player2, Player2Keys[k]))
                      /\ player2'.health = player2.health
                      /\ UNCHANGED <<player1, bullets, obstacles, game_over, winner>>
       /\ (SameCell(player1, player2) \/ OnObstacle(player1) \/ OnObstacle(player2)) =>
            /\ player1'.health = player1.health /\ player2'.health = player2.health
            /\ UNCHANGED <<bullets, obstacles, game_over, winner>>]_vars

\* the two tanks stand on one cell, on which the obstacles are too, and an
\* update has passed: nothing was hit
C17_Witness ==
    /\ pc = "input" /\ SameCell(player1, player2) /\ OnObstacle(player1)
    /\ player1.health = initial_health /\ player2.health = initial_health
    /\ Len(obstacles) = num_obstacles /\ ~game_over

(***************************************************************************)
(* C18: in every state the glyph of each tank is the marker of its heading, *)
(* and after an accepted move the heading is the direction of the move.     *)
(***************************************************************************)
Glyph == [UP |-> "^", DOWN |-> "v", LEFT |-> "<", RIGHT |-> ">"]

HeadingOf(delta) == CHOOSE n \in DOMAIN Direction : Direction[n] = delta

C18_Glyph ==
    /\ [](player1.symbol = Glyph[player1.direction] /\ player2.symbol = Glyph[player2.direction])
    /\ [][pc = "input" =>
            /\ \A k \in DOMAIN Player1Keys :
                  (key' = k /\ ~OnOrBeyondBorder(Target(player1, Player1Keys[k]).x,
                                                 Target(player1, Player1Keys[k]).y)) =>
                      player1'.direction = HeadingOf(Player1Keys[k])
            /\ \A k \in DOMAIN Player2Keys :
                  (key' = k /\ ~OnOrBeyondBorder(Target(player2, Player2Keys[k]).x,
                                                 Target(player2, Player2Keys[k]).y)) =>
                      player2'.direction = HeadingOf(Player2Keys[k])]_vars

\* Player 1 has turned down and Player 2 right
C18_Witness ==
    /\ player1.direction = "DOWN" /\ player1.symbol = "v"
    /\ player2.direction = "RIGHT" /\ player2.symbol = ">"

(***************************************************************************)
(* C19: a bullet whose advance in an update puts it on or beyond a border   *)
(* cell is dead after the collision loop, matched no tank and no obstacle   *)
(* in it, and is not in the bullet list after the update, which keeps       *)
(* exactly the bullets alive after the loop.                                *)
(***************************************************************************)
Advances(b) == b.since_move > speed

Next_x(b) == b.x + Direction[b.direction][1]

Next_y(b) == b.y + Direction[b.direction][2]

C19_Leaves ==
    [][pc = "update" =>
          /\ Len(hits') = Len(bullets)
          /\ \A i \in 1 .. Len(bullets) :
                (Advances(bullets[i]) /\ OnOrBeyondBorder(Next_x(bullets[i]), Next_y(bullets[i]))) =>
                    /\ hits'[i].x = Next_x(bullets[i]) /\ hits'[i].y = Next_y(bullets[i])
                    /\ ~hits'[i].alive
                    /\ hits'[i].targets = <<>>
          /\ Len(bullets') = Cardinality({i \in 1 .. Len(hits') : hits'[i].alive})
          /\ \A i \in 1 .. Len(bullets') :
                \E j \in 1 .. Len(hits') :
                    hits'[j].alive /\ bullets'[i].x = hits'[j].x /\ bullets'[i].y = hits'[j].y]_vars

\* a bullet has advanced onto the top border and is gone, another flies on
C19_Witness ==
    /\ pc = "input" /\ Len(bullets) > 0
    /\ \E i \in 1 .. Len(hits) :
          hits[i].y = 0 /\ ~hits[i].alive /\ hits[i].targets = <<>>

(***************************************************************************)
(* C20, as claimed: at the end of every loop iteration every bullet of the  *)
(* list is strictly inside the border.                                      *)
(***************************************************************************)
C20_Inside ==
    pc # "update" =>
        \A i \in 1 .. Len(bullets) :
            /\ 0 < bullets[i].x /\ bullets[i].x < max_x - 1
            /\ 0 < bullets[i].y /\ bullets[i].y < max_y - 1

(***************************************************************************)
(* C21, as claimed: no bullet takes health from the tank whose fire key     *)
(* created it.                                                              *)
(***************************************************************************)
Matched(e, who) == \E j \in 1 .. Len(e.targets) : e.targets[j] = who

C21_Original ==
    \A i \in 1 .. Len(hits) :
        /\ hits[i].owner = 1 => ~Matched(hits[i], "player1")
        /\ hits[i].owner = 2 => ~Matched(hits[i], "player2")

(***************************************************************************)
(* C21, amended: a bullet has no owner in the code.  In an update a tank    *)
(* loses one health point for every bullet that is on its cell after the    *)
(* bullets have advanced, whoever fired it, down to health 0; each bullet   *)
(* that took a point is dead.  A tank that fires and steps onto the cell of *)
(* its bullet before the bullet's first advance is hit by it.               *)
(***************************************************************************)
OnCellOf(log, t) == {i \in 1 .. Len(log) : log[i].x = t.x /\ log[i].y = t.y}

AfterHits(t, n) == IF t.health > n THEN t.health - n ELSE 0

C21_Amended ==
    [][pc = "update" =>
          /\ player1'.health = AfterHits(player1, Cardinality(OnCellOf(hits', player1)))
          /\ player2'.health = AfterHits(player2, Cardinality(OnCellOf(hits', player2)))
          /\ \A i \in 1 .. Len(hits') :
                /\ Matched(hits'[i], "player1") => (i \in OnCellOf(hits', player1) /\ ~hits'[i].alive)
                /\ Matched(hits'[i], "player2") => (i \in OnCellOf(hits', player2) /\ ~hits'[i].alive)
          /\ player1.health - player1'.health =
                Cardinality({i \in 1 .. Len(hits') : Matched(hits'[i], "player1")})
          /\ player2.health - player2'.health =
                Cardinality({i \in 1 .. Len(hits') : Matched(hits'[i], "player2")})]_vars

\* Player 1 was hit by a bullet of its own; Player 2 has never fired
C21_Witness ==
    /\ pc = "input" /\ fired_ago[2] = -1 /\ player1.health = initial_health - 1
    /\ \E i \in 1 .. Len(hits) : hits[i].owner = 1 /\ Matched(hits[i], "player1")

(***************************************************************************)
(* C22, as claimed: when a tank has just moved onto the cell of a live      *)
(* bullet that heads against the tank's move, and the bullet advances in    *)
(* the update of that iteration (onto the cell the tank left), the tank     *)
(* loses health in that update.                                             *)
(***************************************************************************)
Opposite == [UP |-> "DOWN", DOWN |-> "UP", LEFT |-> "RIGHT", RIGHT |-> "LEFT"]

\* the tank stands where it has just moved to, heading as it moved; a bullet
\* on its cell heads the other way and is due to advance
Exchanges(t, moved) ==
    /\ pc = "update" /\ moved /\ t.alive
    /\ \E i \in 1 .. Len(bullets) :
          /\ bullets[i].alive /\ SameCell(bullets[i], t)
          /\ bullets[i].direction = Opposite[t.direction]
          /\ Advances(bullets[i])

C22_NoPassThrough ==
    [][/\ Exchanges(player1, key \in DOMAIN Player1Keys) => player1'.health < player1.health
       /\ Exchanges(player2, key \in DOMAIN Player2Keys) => player2'.health < player2.health]_vars

(***************************************************************************)
(* C23: from a tracker with no records, after any calls of add_exercise,   *)
(* add_meal and update_weight, daily_records holds at most one record per  *)
(* date; the exercises and meals entered for a date are those of the       *)
(* date's record, in the order entered, and its weight is the weight       *)
(* entered for the date (the latest, weight_kg being one value); a call    *)
(* adds a record only when no record of its date exists.                   *)
(***************************************************************************)
RecordsOf(date) == {i \in 1 .. Len(daily_records) : daily_records[i].date = date}

NamesOf(exercises) == [i \in 1 .. Len(exercises) |-> exercises[i].name]

TypesOf(meals) == [i \in 1 .. Len(meals) |-> meals[i].meal_type]

HeldIn(date) ==
    \A i \in RecordsOf(date) :
       /\ daily_records[i].date = date
       /\ NamesOf(daily_records[i].exercises) = entered[date].exercises
       /\ TypesOf(daily_records[i].meals) = entered[date].meals
       /\ \A k \in 1 .. Len(daily_records[i].exercises) :
             daily_records[i].exercises[k].date = date
       /\ \A k \in 1 .. Len(daily_records[i].meals) :
             daily_records[i].meals[k].date = date
       /\ daily_records[i].weight_kg = entered[date].weight_kg

\* the records keep their places and dates; a record added is the one record
\* of the call's date
OnlyWhenNone ==
    /\ Len(daily_records') >= Len(daily_records)
    /\ \A i \in 1 .. Len(daily_records) : daily_records'[i].date = daily_records[i].date
    /\ Len(daily_records') > Len(daily_records) =>
          /\ Len(daily_records') = Len(daily_records) + 1
          /\ daily_records'[Len(daily_records')].date = last_call'.date
          /\ RecordsOf(last_call'.date) = {}

NeedsUser == {"generate_plan", "add_exercise", "update_weight"}

C24_Rejected ==
    [][(user = Nothing /\ last_call'.op \in NeedsUser) =>
          /\ last_call'.raised /= None
          /\ daily_records' = daily_records
          /\ user' = Nothing
          /\ current_plan' = current_plan]_vars

====
